---------------------------- MODULE Spec2Model ----------------------------
(* Bid-decision engine of the Bid_Request_Simulator: targeting filter,     *)
(* budget ledger, pricing and the /bid, /stats, /predict, /reset, /health  *)
(* handlers of bidder_multi.py and bidder_server.py.                       *)
(*                                                                         *)
(* Money is counted in cents, CTR in basis points (1/10000).               *)
EXTENDS Integers, Sequences, FiniteSets, TLC

\* ------------------------------------------------------------------ bounds
\* Last date of the simulated calendar (dates are 0..MaxDate).
MaxDate == 2
\* Length of a month of the simulated calendar: day-of-month is 1..MonthLen.
MonthLen == 2
\* Largest number of impressions carried by one bid request.
MaxImps == 2
\* Number of requests the threaded server handles at the same time.
NThreads == 2
\* Largest number of impressions of a request handled concurrently.
MaxConcImps == 1
\* Largest number of restarts of the server process.
MaxRestarts == 2

\* --------------------------------------------------------------- constants
\* click_probability used when prediction raises (0.015).
DefaultCtr == 150
\* ctr_multiplier = 1.0 + ctr / 0.05: 0.05 in basis points.
CtrScale == 500
\* ctr_multiplier is capped at 2.0 = CapNum / CtrScale.
CapNum == 1000
\* imp.get('bidfloor', 1.0) in predict_ctr.
PredictDefaultFloor == 100

Max(a, b) == IF a >= b THEN a ELSE b
Min(a, b) == IF a <= b THEN a ELSE b

\* ------------------------------------------------------------ configuration
StrategyNames == {"conservative", "aggressive", "balanced", "minimal"}

\* STRATEGIES of bidder_multi.py, and the module constants of
\* bidder_server.py under the name "minimal".  markup is the constant added
\* to the base price in generate_bid_response; has_reset / has_predict tell
\* which administrative routes the program registers.
STRATEGIES == [s \in StrategyNames |->
    CASE s = "conservative" ->
           [target_country |-> "USA", target_devices |-> {"PHONE"},
            target_os |-> {"iOS"}, min_bid_price |-> 200,
            bid_window_start |-> 9, bid_window_end |-> 17,
            daily_budget |-> 1500, markup |-> 20,
            has_reset |-> FALSE, has_predict |-> TRUE]
      [] s = "aggressive" ->
           [target_country |-> "USA",
            target_devices |-> {"PHONE", "TABLET", "DESKTOP"},
            target_os |-> {"iOS", "Android"}, min_bid_price |-> 50,
            bid_window_start |-> 8, bid_window_end |-> 22,
            daily_budget |-> 2500, markup |-> 1,
            has_reset |-> FALSE, has_predict |-> TRUE]
      [] s = "balanced" ->
           [target_country |-> "USA", target_devices |-> {"PHONE", "TABLET"},
            target_os |-> {"iOS"}, min_bid_price |-> 100,
            bid_window_start |-> 9, bid_window_end |-> 17,
            daily_budget |-> 2000, markup |-> 5,
            has_reset |-> FALSE, has_predict |-> TRUE]
      [] OTHER ->
           [target_country |-> "USA", target_devices |-> {"PHONE", "TABLET"},
            target_os |-> {"iOS"}, min_bid_price |-> 100,
            bid_window_start |-> 9, bid_window_end |-> 17,
            daily_budget |-> 1000, markup |-> 5,
            has_reset |-> TRUE, has_predict |-> FALSE]]

\* ------------------------------------------------------------------- inputs
\* A devicetype that is a JSON number (OpenRTB encodes device types as
\* integers): str.upper() does not exist on it.
NumericDeviceType == "<int>"

\* The impression of the generator's USA-iOS mode that every strategy targets.
BaseImp ==
    [has_floor |-> TRUE, bidfloor |-> 280, devicetype |-> "PHONE",
     os |-> "iOS", country |-> "USA"]

\* Impressions of bid requests: every combination of a matching and a
\* non-matching value of each field, and single-field variations of BaseImp
\* (missing bidfloor, lower-case and numeric devicetype, tablet, Android).
\* bidfloor is in cents; has_floor = FALSE is a missing key.
Impressions ==
    [has_floor : {TRUE}, bidfloor : {0, 280}, devicetype : {"PHONE", "DESKTOP"},
     os : {"iOS", "Windows"}, country : {"USA", "GER"}]
    \cup {[BaseImp EXCEPT !.has_floor = FALSE, !.bidfloor = 0]}
    \cup {[BaseImp EXCEPT !.devicetype = dt] : dt \in {"phone", "TABLET", NumericDeviceType}}
    \cup {[BaseImp EXCEPT !.os = "Android"]}

\* Impressions with a bidfloor below zero.
NegativeFloorImpressions ==
    [has_floor : {TRUE}, bidfloor : {-50}, devicetype : {"PHONE"},
     os : {"iOS"}, country : {"USA", "GER"}]

\* Outcome of predictor.predict(imp): a CTR in basis points, or PredFail when
\* get_predictor() or predict raises.
PredFail == -1
CtrValues == {500}
PredOutcomes == CtrValues \cup {PredFail}

\* Hours of the day the clock is sampled at: midnight and the hours around
\* the ends of the two bid windows (8-22 and 9-17).
Hours == {0, 8, 9, 16, 17, 21, 22}

\* str.upper() on the device types and countries of the model.
Upper(s) ==
    CASE s = "phone" -> "PHONE"
      [] s = "usa" -> "USA"
      [] OTHER -> s

\* datetime.now().day for a date of the simulated calendar.
DayOfMonth(d) == (d % MonthLen) + 1

VARIABLES
    strategy,        \* args.strategy / which program runs ("minimal" = bidder_server.py)
    total_spent,     \* global total_spent, in cents
    bid_count,       \* global bid_count
    last_reset_day,  \* global last_reset_day (a day of the month)
    date,            \* the clock: calendar date
    hour,            \* the clock: hour of the day
    threads,         \* the request each server thread is handling, its position
                     \* in bid() and its local variables
    ledger_date,     \* history: the calendar date at which last_reset_day was
                     \* last compared with the clock (program start at first)
    resp,            \* the response in flight to the caller, with the
                     \* diagnostics of the request that produced it
    model_file,      \* the contents of the file ctr_model.pkl
    predictor,       \* global _predictor of ml_predictor.py
    constructed      \* history: the constructions of a ClickProbabilityPredictor
                     \* (how, and the model obtained) and the process restarts

\* The state of ml_predictor.py.  The ledger specifications represent the
\* predictor by the outcome of its call (PredOutcomes) and leave these alone;
\* SpecModel and SpecPred follow its construction.
ml_vars == <<model_file, predictor, constructed>>

vars == <<strategy, total_spent, bid_count, last_reset_day, date, hour,
          threads, ledger_date, resp, model_file, predictor, constructed>>

config == STRATEGIES[strategy]

\* ---------------------------------------------------------- budget ledger
Ledger(spent, count, lrd) == [spent |-> spent, count |-> count, lrd |-> lrd]

\* Variant: the counters are zeroed on every call.
ResetOnEveryCall(led, d) == Ledger(0, 0, DayOfMonth(d))

\* Variant: the rollover zeroes total_spent but leaves bid_count.
ResetKeepsCount(led, d) ==
    IF DayOfMonth(d) # led.lrd
    THEN Ledger(0, led.count, DayOfMonth(d))
    ELSE led

\* reset_budget_if_new_day(): compares the day of the month with
\* last_reset_day and zeroes the counters when they differ.
reset_budget_if_new_day(led, d) ==
    IF DayOfMonth(d) # led.lrd
    THEN Ledger(0, 0, DayOfMonth(d))
    ELSE led

\* -------------------------------------------------------- targeting filter
\* Variant: the bidfloor check comes before the budget check.
CheckOrderBidfloorFirst ==
    <<"bidfloor", "budget", "window", "device", "os", "country">>

\* The order in which should_bid evaluates its checks.
CheckOrder == <<"budget", "bidfloor", "window", "device", "os", "country">>

\* Variant: the bid window includes its end hour.
CheckOutcomeClosedWindow(name, imp, spent, h, cfg) ==
    CASE name = "budget" ->
           IF spent >= cfg.daily_budget THEN "fail" ELSE "pass"
      [] name = "bidfloor" ->
           IF ~imp.has_floor \/ imp.bidfloor = 0 THEN "fail" ELSE "pass"
      [] name = "window" ->
           IF cfg.bid_window_start <= h /\ h <= cfg.bid_window_end
           THEN "pass" ELSE "fail"
      [] name = "device" ->
           IF imp.devicetype = NumericDeviceType THEN "raise"
           ELSE IF Upper(imp.devicetype) \in cfg.target_devices
                THEN "pass" ELSE "fail"
      [] name = "os" ->
           IF imp.os \in cfg.target_os THEN "pass" ELSE "fail"
      [] OTHER ->
           IF imp.country = cfg.target_country THEN "pass" ELSE "fail"

\* Variant: the budget check lets the ledger reach twice the daily budget.
CheckOutcomeDoubleBudget(name, imp, spent, h, cfg) ==
    CASE name = "budget" ->
           IF spent >= 2 * cfg.daily_budget THEN "fail" ELSE "pass"
      [] name = "bidfloor" ->
           IF ~imp.has_floor \/ imp.bidfloor = 0 THEN "fail" ELSE "pass"
      [] name = "window" ->
           IF cfg.bid_window_start <= h /\ h < cfg.bid_window_end
           THEN "pass" ELSE "fail"
      [] name = "device" ->
           IF imp.devicetype = NumericDeviceType THEN "raise"
           ELSE IF Upper(imp.devicetype) \in cfg.target_devices
                THEN "pass" ELSE "fail"
      [] name = "os" ->
           IF imp.os \in cfg.target_os THEN "pass" ELSE "fail"
      [] OTHER ->
           IF imp.country = cfg.target_country THEN "pass" ELSE "fail"

\* One check of should_bid: "pass", "fail" (return False) or "raise"
\* (an exception leaves should_bid).
CheckOutcome(name, imp, spent, h, cfg) ==
    CASE name = "budget" ->
           IF spent >= cfg.daily_budget THEN "fail" ELSE "pass"
      [] name = "bidfloor" ->
           \* not imp.get('bidfloor'): a missing key or a zero is falsy
           IF ~imp.has_floor \/ imp.bidfloor = 0 THEN "fail" ELSE "pass"
      [] name = "window" ->
           IF cfg.bid_window_start <= h /\ h < cfg.bid_window_end
           THEN "pass" ELSE "fail"
      [] name = "device" ->
           IF imp.devicetype = NumericDeviceType THEN "raise"
           ELSE IF Upper(imp.devicetype) \in cfg.target_devices
                THEN "pass" ELSE "fail"
      [] name = "os" ->
           IF imp.os \in cfg.target_os THEN "pass" ELSE "fail"
      [] OTHER ->
           IF imp.country = cfg.target_country THEN "pass" ELSE "fail"

RECURSIVE EvalChecks(_, _, _, _, _)
EvalChecks(k, imp, spent, h, cfg) ==
    IF k > Len(CheckOrder)
    THEN [result |-> "true", reason |-> "ok", evaluated |-> CheckOrder]
    ELSE LET o == CheckOutcome(CheckOrder[k], imp, spent, h, cfg)
         IN  IF o = "pass"
             THEN EvalChecks(k + 1, imp, spent, h, cfg)
             ELSE [result |-> IF o = "raise" THEN "raise" ELSE "false",
                   reason |-> CheckOrder[k],
                   evaluated |-> SubSeq(CheckOrder, 1, k)]

\* should_bid(imp) after its call of reset_budget_if_new_day(): the checks
\* in order, stopping at the first that does not pass.
should_bid(imp, spent, h, cfg) == EvalChecks(1, imp, spent, h, cfg)

\* ------------------------------------------------------------------ pricing
\* Variant: no fallback, the failed prediction's value is used as it is.
ClickProbabilityNoFallback(pred) == pred

\* click_probability of generate_bid_response: the prediction, or the
\* default when prediction raised.
ClickProbability(pred) == IF pred = PredFail THEN DefaultCtr ELSE pred

\* Variant: max written for min in the cap.
CtrMultiplierMaxForMin(ctr) == Max(CtrScale + ctr, CapNum)

\* Variant: the cap is missing.
CtrMultiplierUncapped(ctr) == CtrScale + ctr

\* ctr_multiplier, as a numerator over CtrScale.
CtrMultiplierNum(ctr) == Min(CtrScale + ctr, CapNum)

\* Variant: the strategy's markup is not added.
BasePriceNoMarkup(imp, cfg) ==
    Max(IF imp.has_floor THEN imp.bidfloor ELSE cfg.min_bid_price,
        cfg.min_bid_price)

\* base_price of generate_bid_response.
BasePrice(imp, cfg) ==
    Max(IF imp.has_floor THEN imp.bidfloor ELSE cfg.min_bid_price,
        cfg.min_bid_price) + cfg.markup

\* n/d is exactly halfway between two cents.
IsTie(n, d) == 2 * (n % d) = d

\* round(x, 2) of the float product n/d (in cents), n >= 0.  Away from a tie
\* the nearest cent; on an exact decimal tie the binary floating-point
\* product lies just above or just below the halfway point, so either
\* neighbour can come out: up selects which.
Round2(n, d, up) ==
    LET q == n \div d
        r == n % d
    IN  IF 2 * r > d THEN q + 1
        ELSE IF 2 * r < d THEN q
        ELSE IF up THEN q + 1 ELSE q

\* bid price of generate_bid_response: round(base_price * ctr_multiplier, 2).
BidPrice(imp, ctr, cfg, up) ==
    Round2(BasePrice(imp, cfg) * CtrMultiplierNum(ctr), CtrScale, up)

PriceIsTie(imp, ctr, cfg) ==
    IsTie(BasePrice(imp, cfg) * CtrMultiplierNum(ctr), CtrScale)

\* ------------------------------------------------------------ CTR predictor
\* A model is the dict {'weights': ..., 'bias': ...} of the predictor.
\* SeededModel is what train_model computes in one thread: the data are
\* drawn after np.random.seed(42) and the initial weights from the same
\* generator.  PriorModel stands for a model persisted by an earlier run
\* with other parameters.  InterleavedModel is the result of a training
\* whose draws from numpy's global generator interleave with those of
\* another thread's training.
SeededModel == [weights |-> "w_seed42", bias |-> "b_seed42"]
PriorModel == [weights |-> "w_prior", bias |-> "b_prior"]
InterleavedModel == [weights |-> "w_interleaved", bias |-> "b_interleaved"]

\* _predictor = None, and a thread-local that holds no predictor.
NoPredictor == [weights |-> "None", bias |-> "None"]

\* os.path.exists(model_path) is false.
NoFile == [exists |-> FALSE, data |-> <<>>]

\* The file right after open(model_path, 'wb'): it exists and is empty
\* until the buffered pickle is flushed when the with-block closes it.
EmptyFile == [exists |-> TRUE, data |-> <<>>]

\* pickle.dump(self.model, f): the pickle of the dict, as its stream of
\* operations (mark, key, value, key, value, build the dict, stop).
PickleDump(m) == <<"MARK", "weights", m.weights, "bias", m.bias, "DICT", "STOP">>

\* The file after save_model() of a model.
SavedFile(m) == [exists |-> TRUE, data |-> PickleDump(m)]

\* pickle.load(f): the dict rebuilt from the stream; an empty or cut-off
\* stream raises (EOFError, UnpicklingError).
PickleLoad(f) ==
    IF Len(f) = 7 /\ f[1] = "MARK" /\ f[6] = "DICT" /\ f[7] = "STOP"
    THEN [ok |-> TRUE, model |-> (f[2] :> f[3]) @@ (f[4] :> f[5])]
    ELSE [ok |-> FALSE, model |-> NoPredictor]

\* Variant: the model is trained and saved whether or not the file exists.
AlwaysTrain(file) ==
    [raised |-> FALSE, path |-> "train", model |-> SeededModel,
     file |-> SavedFile(SeededModel)]

\* load_or_create_model(): load the file when it exists, else train_model()
\* and save_model().  Gives the model, the file afterwards and which path
\* was taken; raised when pickle.load raises.
load_or_create_model(file) ==
    IF file.exists
    THEN LET l == PickleLoad(file.data)
         IN  [raised |-> ~l.ok, path |-> "load", model |-> l.model, file |-> file]
    ELSE [raised |-> FALSE, path |-> "train", model |-> SeededModel,
          file |-> SavedFile(SeededModel)]

\* ------------------------------------------------------------- bid requests
\* Impressions used in requests that carry more than one impression.
CoreImpressions ==
    [has_floor : {TRUE}, bidfloor : {280}, devicetype : {"PHONE", NumericDeviceType},
     os : {"iOS"}, country : {"USA", "GER"}]

\* The imp arrays of the valid bid requests.
ImpSeqs ==
    {<<i>> : i \in Impressions}
    \cup UNION {[1 .. n -> CoreImpressions] : n \in 2 .. MaxImps}

\* Bodies of /bid: "null" (get_json() gives None), "empty" ({}), "no_id",
\* "no_imp" (key missing), "empty_imp" (imp: []), or a valid request.
MalformedKinds == {"null", "empty", "no_id", "no_imp", "empty_imp"}

BidRequests ==
    [kind : MalformedKinds, imp : {<<>>}] \cup [kind : {"valid"}, imp : ImpSeqs]

\* No response in flight.
NoResp == [op |-> "none"]

\* The rounding directions round() can take for a price.
UpChoices(imp, ctr, cfg) ==
    IF PriceIsTie(imp, ctr, cfg) THEN BOOLEAN ELSE {FALSE}

\* What the loop of bid() records for one impression: the ledger before the
\* call of should_bid, the ledger after its rollover check, the total_spent
\* its budget check read, its verdict, whether the prediction raised, the
\* click probability used, and the price and ledger after the debit.
Entry(imp, h, led0, led1, sb, failed, ctr, price, led2) ==
    [imp |-> imp, hour |-> h, before |-> led0, checked |-> led1,
     seen |-> led1.spent,
     result |-> sb.result, reason |-> sb.reason, evaluated |-> sb.evaluated,
     pred_failed |-> failed, ctr |-> ctr, price |-> price, after |-> led2]

\* Variant: the budget check of every impression of a request sees
\* total_spent as the first impression saw it.
RECURSIVE ProcessImpsBudgetOnce(_, _, _, _, _, _, _, _)
ProcessImpsBudgetOnce(imps, k, led, trace, bids, d, h, cfg) ==
    IF k > Len(imps)
    THEN {[led |-> led, trace |-> trace, bids |-> bids, raised |-> FALSE]}
    ELSE
      LET imp  == imps[k]
          led1 == reset_budget_if_new_day(led, d)
          sb   == should_bid(imp, IF trace = <<>> THEN led1.spent ELSE trace[1].seen,
                             h, cfg)
      IN  IF sb.result = "raise"
          THEN {[led |-> led1,
                 trace |-> Append(trace, Entry(imp, h, led, led1, sb, FALSE, 0, 0, led1)),
                 bids |-> bids, raised |-> TRUE]}
          ELSE IF sb.result = "false"
          THEN ProcessImpsBudgetOnce(imps, k + 1, led1,
                           Append(trace, Entry(imp, h, led, led1, sb, FALSE, 0, 0, led1)),
                           bids, d, h, cfg)
          ELSE UNION {
                 LET ctr   == ClickProbability(pred)
                 IN  UNION {
                       LET price == BidPrice(imp, ctr, cfg, up)
                           led2  == Ledger(led1.spent + price, led1.count + 1, led1.lrd)
                       IN  ProcessImpsBudgetOnce(imps, k + 1, led2,
                                       Append(trace, Entry(imp, h, led, led1, sb, pred = PredFail, ctr, price, led2)),
                                       Append(bids, [impid |-> k, price |-> price, predicted_ctr |-> ctr]),
                                       d, h, cfg)
                       : up \in UpChoices(imp, ctr, cfg)}
                 : pred \in PredOutcomes}

\* The loop `for imp in bid_request['imp']` of bid(), from impression k on:
\* the set of its possible outcomes (one per prediction outcome and rounding
\* direction of each admitted impression).  An outcome holds the ledger, the
\* per-impression record, the list bids, and whether an exception left the loop.
RECURSIVE ProcessImps(_, _, _, _, _, _, _, _)
ProcessImps(imps, k, led, trace, bids, d, h, cfg) ==
    IF k > Len(imps)
    THEN {[led |-> led, trace |-> trace, bids |-> bids, raised |-> FALSE]}
    ELSE
      LET imp  == imps[k]
          led1 == reset_budget_if_new_day(led, d)
          sb   == should_bid(imp, led1.spent, h, cfg)
      IN  IF sb.result = "raise"
          THEN {[led |-> led1,
                 trace |-> Append(trace, Entry(imp, h, led, led1, sb, FALSE, 0, 0, led1)),
                 bids |-> bids, raised |-> TRUE]}
          ELSE IF sb.result = "false"
          THEN ProcessImps(imps, k + 1, led1,
                           Append(trace, Entry(imp, h, led, led1, sb, FALSE, 0, 0, led1)),
                           bids, d, h, cfg)
          ELSE UNION {
                 LET ctr   == ClickProbability(pred)
                 IN  UNION {
                       LET price == BidPrice(imp, ctr, cfg, up)
                           led2  == Ledger(led1.spent + price, led1.count + 1, led1.lrd)
                       IN  ProcessImps(imps, k + 1, led2,
                                       Append(trace, Entry(imp, h, led, led1, sb, pred = PredFail, ctr, price, led2)),
                                       Append(bids, [impid |-> k, price |-> price, predicted_ctr |-> ctr]),
                                       d, h, cfg)
                       : up \in UpChoices(imp, ctr, cfg)}
                 : pred \in PredOutcomes}

\* bid(): the possible results of the handler for a request body.
bid(req, led, d, h, cfg) ==
    IF req.kind = "null"
    THEN \* bid_request.get('id', ...) on None raises before validation
         {[status |-> 500, led |-> led, trace |-> <<>>, bids |-> <<>>]}
    ELSE IF req.kind # "valid"
    THEN {[status |-> 400, led |-> led, trace |-> <<>>, bids |-> <<>>]}
    ELSE {[status |-> IF o.raised THEN 500
                      ELSE IF o.bids # <<>> THEN 200 ELSE 204,
           led |-> o.led, trace |-> o.trace,
           \* the body carries bids[0] only
           bids |-> IF ~o.raised /\ o.bids # <<>> THEN <<o.bids[1]>> ELSE <<>>]
          : o \in ProcessImps(req.imp, 1, led, <<>>, <<>>, d, h, cfg)}

\* ------------------------------------------------------------------ actions
Idle == resp.op = "none"

Threads == 1 .. NThreads

\* A server thread that handles no request.
IdleThread ==
    [pc |-> "idle", imps |-> <<>>, k |-> 0, day |-> 0, seen |-> 0,
     price |-> 0, reg |-> 0, nbids |-> 0, status |-> 0,
     obj |-> NoPredictor, used |-> NoPredictor]

CurrentLedger == Ledger(total_spent, bid_count, last_reset_day)

\* The model files a server can find when it starts.
ModelFiles == {NoFile} \cup {SavedFile(m) : m \in {SeededModel, PriorModel}}

InitServer ==
    /\ strategy \in StrategyNames
    /\ total_spent = 0
    /\ bid_count = 0
    /\ date = 0
    /\ hour \in Hours
    /\ last_reset_day = DayOfMonth(date)
    /\ ledger_date = date
    /\ threads = [t \in Threads |-> IdleThread]
    /\ resp = NoResp
    /\ predictor = NoPredictor
    /\ constructed = <<>>

Init == InitServer /\ model_file = NoFile

\* POST /bid
Bid(req) ==
    /\ Idle
    /\ \E out \in bid(req, CurrentLedger, date, hour, config) :
         /\ total_spent' = out.led.spent
         /\ bid_count' = out.led.count
         /\ last_reset_day' = out.led.lrd
         /\ resp' = [op |-> "bid", kind |-> req.kind, status |-> out.status,
                     bids |-> out.bids, trace |-> out.trace,
                     pre |-> CurrentLedger, pre_ledger_date |-> ledger_date]
         /\ ledger_date' = IF out.trace # <<>> THEN date ELSE ledger_date
    /\ UNCHANGED <<ml_vars, strategy, date, hour, threads>>

\* Variant: remaining_budget is not floored at zero.
StatsNegativeRemaining ==
    /\ Idle
    /\ resp' = [op |-> "stats", status |-> 200,
                total_spent |-> total_spent, bid_count |-> bid_count,
                remaining_budget |-> config.daily_budget - total_spent,
                pre |-> CurrentLedger]
    /\ UNCHANGED <<ml_vars, strategy, total_spent, bid_count, last_reset_day, date, hour, threads, ledger_date>>

\* GET /stats
Stats ==
    /\ Idle
    /\ resp' = [op |-> "stats", status |-> 200,
                total_spent |-> total_spent, bid_count |-> bid_count,
                remaining_budget |-> Max(0, config.daily_budget - total_spent),
                pre |-> CurrentLedger]
    /\ UNCHANGED <<ml_vars, strategy, total_spent, bid_count, last_reset_day, date, hour, threads, ledger_date>>

\* GET /health
Health ==
    /\ Idle
    /\ resp' = [op |-> "health", status |-> 200, pre |-> CurrentLedger]
    /\ UNCHANGED <<ml_vars, strategy, total_spent, bid_count, last_reset_day, date, hour, threads, ledger_date>>

\* Variant: the manual reset zeroes total_spent and leaves bid_count.
ResetSpentOnly ==
    /\ Idle
    /\ config.has_reset
    /\ total_spent' = 0
    /\ resp' = [op |-> "reset", status |-> 200, pre |-> CurrentLedger]
    /\ UNCHANGED <<ml_vars, strategy, bid_count, last_reset_day, date, hour, threads, ledger_date>>

\* POST /reset (bidder_server.py only)
reset_budget ==
    /\ Idle
    /\ config.has_reset
    /\ total_spent' = 0
    /\ bid_count' = 0
    /\ resp' = [op |-> "reset", status |-> 200, pre |-> CurrentLedger]
    /\ UNCHANGED <<ml_vars, strategy, last_reset_day, date, hour, threads, ledger_date>>

\* Variant: the suggested bid carries twice the strategy markup.
SuggestedBidDoubleMarkup(imp, ctr, cfg, up) ==
    Round2((Max(IF imp.has_floor THEN imp.bidfloor ELSE PredictDefaultFloor,
                cfg.min_bid_price) + 2 * cfg.markup) * CtrMultiplierNum(ctr),
           CtrScale, up)

\* suggested_bid of predict_ctr: no markup, bidfloor defaulting to 1.0.
SuggestedBid(imp, ctr, cfg, up) ==
    Round2(Max(IF imp.has_floor THEN imp.bidfloor ELSE PredictDefaultFloor,
               cfg.min_bid_price) * CtrMultiplierNum(ctr), CtrScale, up)

\* Bodies of /predict: "null", "no_imp", or {"imp": [...]}.
PredictRequests ==
    [kind : {"null", "no_imp"}, imp : {<<>>}]
    \cup [kind : {"valid"}, imp : {<<>>} \cup {<<i>> : i \in CoreImpressions}]

\* One element of predictions: predict raises on a numeric devicetype
\* (and whenever the predictor fails), which yields an error entry.
Prediction(imp, pred, cfg, up) ==
    IF pred = PredFail
    THEN [error |-> TRUE, predicted_ctr |-> 0, suggested_bid |-> 0]
    ELSE [error |-> FALSE, predicted_ctr |-> pred,
          suggested_bid |-> SuggestedBid(imp, pred, cfg, up)]

\* POST /predict (bidder_multi.py only)
predict_ctr(req) ==
    /\ Idle
    /\ config.has_predict
    /\ \/ /\ req.kind # "valid"
          /\ resp' = [op |-> "predict", status |-> 400, predictions |-> <<>>,
                      pre |-> CurrentLedger]
       \/ /\ req.kind = "valid"
          /\ \E preds \in [1 .. Len(req.imp) -> PredOutcomes \X BOOLEAN] :
               /\ \A k \in 1 .. Len(req.imp) :
                    /\ req.imp[k].devicetype = NumericDeviceType
                         => preds[k][1] = PredFail
                    /\ preds[k][2] => /\ preds[k][1] # PredFail
                                      /\ IsTie(Max(req.imp[k].bidfloor, config.min_bid_price)
                                                 * CtrMultiplierNum(preds[k][1]), CtrScale)
               /\ resp' = [op |-> "predict", status |-> 200,
                           predictions |->
                             [k \in 1 .. Len(req.imp) |->
                                Prediction(req.imp[k], preds[k][1], config, preds[k][2])],
                           pre |-> CurrentLedger]
    /\ UNCHANGED <<ml_vars, strategy, total_spent, bid_count, last_reset_day, date, hour, threads, ledger_date>>

\* The caller receives the response; the next request can be handled.
Deliver ==
    /\ ~Idle
    /\ resp' = NoResp
    /\ UNCHANGED <<ml_vars, strategy, total_spent, bid_count, last_reset_day, date, hour, threads, ledger_date>>

\* Time passes between requests.
Tick(d, h) ==
    /\ Idle
    /\ \/ d > date
       \/ d = date /\ h > hour
    /\ date' = d
    /\ hour' = h
    /\ UNCHANGED <<ml_vars, strategy, total_spent, bid_count, last_reset_day, threads, ledger_date, resp>>

Next ==
    \/ \E req \in BidRequests : Bid(req)
    \/ Stats
    \/ Health
    \/ reset_budget
    \/ \E req \in PredictRequests : predict_ctr(req)
    \/ Deliver
    \/ \E d \in 0 .. MaxDate, h \in Hours : Tick(d, h)

Spec == Init /\ [][Next]_vars

\* ------------------------------------------- requests with unusual bidfloors
\* Impressions that match every strategy's targeting and carry a negative,
\* a zero or no bidfloor.
FloorImpressions ==
    NegativeFloorImpressions
    \cup {[BaseImp EXCEPT !.bidfloor = 0],
          [BaseImp EXCEPT !.has_floor = FALSE, !.bidfloor = 0]}

FloorRequests == [kind : {"valid"}, imp : {<<i>> : i \in FloorImpressions}]

NextFloor ==
    \/ \E req \in FloorRequests : Bid(req)
    \/ Deliver
    \/ \E d \in 0 .. MaxDate, h \in Hours : Tick(d, h)

SpecFloor == Init /\ [][NextFloor]_vars

\* ------------------------------------- requests of bid_request_generator.py
\* generate_bid_request(imp_count, usa_ios_only=True): country USA, device
\* PHONE or TABLET (one choice for the whole request), OS iOS, and for each
\* impression a bidfloor round(random.uniform(0.10, 2.00), 2), here the upper
\* end of the range.
GenBidfloors == {200}

GenImpressions ==
    [has_floor : {TRUE}, bidfloor : GenBidfloors, devicetype : {"PHONE", "TABLET"},
     os : {"iOS"}, country : {"USA"}]

\* --imp-count impressions per request (default 1).
GenRequests ==
    [kind : {"valid"},
     imp : {imps \in UNION {[1 .. n -> GenImpressions] : n \in 1 .. MaxImps} :
              \A k \in 1 .. Len(imps) : imps[k].devicetype = imps[1].devicetype}]

\* main(): the generator posts its requests to the bidder, one at a time.
NextGen ==
    \/ \E req \in GenRequests : Bid(req)
    \/ Deliver
    \/ \E d \in 0 .. MaxDate, h \in Hours : Tick(d, h)

SpecGen == Init /\ [][NextGen]_vars

\* ---------------------------------------------------------------- pricing
\* generate_bid_response and the suggested bid of predict_ctr applied to
\* impressions and click probabilities over their whole range.  Bidfloors in
\* cents, below, at and above every min_bid_price, some giving a product
\* halfway between two cents.
PriceFloors == {-50, 1, 50, 200, 205, 280, 300}

PriceImpressions == {[BaseImp EXCEPT !.bidfloor = f] : f \in PriceFloors}

\* predictor.predict returns float(np.clip(probability, 0, 1)): basis points
\* from 0 to 10000, around the default 0.015 and the cap at 0.05.
PriceCtrValues == {0, 1, 150, 250, 499, 500, 501, 5000, 10000}

PricePredOutcomes == PriceCtrValues \cup {PredFail}

\* The base price of the suggested bid: no markup, bidfloor defaulting to 1.0.
SuggestedBase(imp, cfg) ==
    Max(IF imp.has_floor THEN imp.bidfloor ELSE PredictDefaultFloor,
        cfg.min_bid_price)

\* generate_bid_response(imp, request_id): the bid built for an impression.
generate_bid_response(imp, pred) ==
    /\ Idle
    /\ LET ctr == ClickProbability(pred)
       IN  \E up \in UpChoices(imp, ctr, config) :
             resp' = [op |-> "price", imp |-> imp, pred_failed |-> pred = PredFail,
                      ctr |-> ctr, base |-> BasePrice(imp, config),
                      mult |-> CtrMultiplierNum(ctr),
                      price |-> BidPrice(imp, ctr, config, up)]
    /\ UNCHANGED <<ml_vars, strategy, total_spent, bid_count, last_reset_day, date, hour, threads, ledger_date>>

\* The body of the loop of predict_ctr for one impression: the prediction
\* and the suggested bid, or an error entry when predict raises.
suggested_bid(imp, pred) ==
    /\ Idle
    /\ config.has_predict
    /\ \/ /\ pred = PredFail
          /\ resp' = [op |-> "suggest", imp |-> imp, error |-> TRUE,
                      ctr |-> 0, base |-> 0, mult |-> 0, price |-> 0]
       \/ /\ pred # PredFail
          /\ \E up \in BOOLEAN :
               /\ up => IsTie(SuggestedBase(imp, config) * CtrMultiplierNum(pred), CtrScale)
               /\ resp' = [op |-> "suggest", imp |-> imp, error |-> FALSE,
                           ctr |-> pred, base |-> SuggestedBase(imp, config),
                           mult |-> CtrMultiplierNum(pred),
                           price |-> SuggestedBid(imp, pred, config, up)]
    /\ UNCHANGED <<ml_vars, strategy, total_spent, bid_count, last_reset_day, date, hour, threads, ledger_date>>

NextPrice ==
    \/ \E imp \in PriceImpressions, pred \in PricePredOutcomes :
         generate_bid_response(imp, pred)
    \/ \E imp \in PriceImpressions \cup {[BaseImp EXCEPT !.has_floor = FALSE, !.bidfloor = 0]},
          pred \in PricePredOutcomes :
         suggested_bid(imp, pred)
    \/ Deliver

SpecPrice == Init /\ [][NextPrice]_vars

\* ------------------------------------------------- predictor construction
\* get_predictor(): the global predictor, constructed on the first call.
\* A constructor that raises leaves _predictor None.
get_predictor ==
    /\ Idle
    /\ IF predictor # NoPredictor
       THEN /\ resp' = [op |-> "get_predictor", path |-> "cached", raised |-> FALSE,
                        model |-> predictor, file_before |-> model_file]
            /\ UNCHANGED ml_vars
       ELSE LET r == load_or_create_model(model_file)
            IN  /\ model_file' = r.file
                /\ predictor' = IF r.raised THEN NoPredictor ELSE r.model
                /\ constructed' =
                     IF r.raised THEN constructed
                     ELSE Append(constructed, [path |-> r.path, model |-> r.model])
                /\ resp' = [op |-> "get_predictor", path |-> r.path,
                            raised |-> r.raised, model |-> r.model,
                            file_before |-> model_file]
    /\ UNCHANGED <<strategy, total_spent, bid_count, last_reset_day, date, hour,
                   threads, ledger_date>>

\* update_model(impression_data, clicked): pass.
update_model ==
    /\ Idle
    /\ predictor # NoPredictor
    /\ resp' = [op |-> "update_model", model |-> predictor]
    /\ UNCHANGED <<ml_vars, strategy, total_spent, bid_count, last_reset_day, date,
                   hour, threads, ledger_date>>

\* The restarts recorded in the history.
Restarts == Len(SelectSeq(constructed, LAMBDA c : c.path = "restart"))

\* The server process is stopped and started again: the module globals are
\* initialised anew, the model file stays.
Restart ==
    /\ Idle
    /\ Restarts < MaxRestarts
    /\ predictor' = NoPredictor
    /\ total_spent' = 0
    /\ bid_count' = 0
    /\ last_reset_day' = DayOfMonth(date)
    /\ ledger_date' = date
    /\ constructed' = Append(constructed, [path |-> "restart", model |-> NoPredictor])
    /\ UNCHANGED <<strategy, date, hour, threads, resp, model_file>>

NextModel ==
    \/ get_predictor
    \/ update_model
    \/ Restart
    \/ Deliver

InitModel == InitServer /\ model_file \in ModelFiles

SpecModel == InitModel /\ [][NextModel]_vars

\* ------------------------------------------------ concurrent bid requests
\* Flask's development server (app.run) handles each request on its own
\* thread; the handlers share the module globals without a lock.  A thread
\* can be preempted between any two reads or writes of a global.
ConcImpressions == {BaseImp, [BaseImp EXCEPT !.country = "GER"]}

\* Prediction outcomes and hours of the concurrent runs: the prediction
\* succeeds; one hour inside every bid window and one outside.
ConcPredOutcomes == CtrValues
ConcHours == {9, 22}

ConcImpSeqs == UNION {[1 .. n -> ConcImpressions] : n \in 1 .. MaxConcImps}

SetThread(t, th) == threads' = [threads EXCEPT ![t] = th]

\* After impression k: the next impression, or the response
\* (200 with bids, 204 without).
NextImp(th) ==
    IF th.k < Len(th.imps)
    THEN [th EXCEPT !.pc = "rollover", !.k = th.k + 1]
    ELSE [th EXCEPT !.pc = "done",
                    !.status = IF th.nbids > 0 THEN 200 ELSE 204]

\* bid(): a valid request arrives; the loop starts with its first impression.
T_Begin(t, imps) ==
    /\ threads[t].pc = "idle"
    /\ SetThread(t, [IdleThread EXCEPT !.pc = "rollover", !.imps = imps, !.k = 1])
    /\ UNCHANGED <<ml_vars, strategy, total_spent, bid_count, last_reset_day, date, hour,
                   ledger_date, resp>>

\* reset_budget_if_new_day(): current_day = datetime.now().day and the
\* comparison with last_reset_day.
T_RolloverCheck(t) ==
    /\ threads[t].pc = "rollover"
    /\ SetThread(t, IF DayOfMonth(date) # last_reset_day
                     THEN [threads[t] EXCEPT !.pc = "reset_spent",
                                             !.day = DayOfMonth(date)]
                     ELSE [threads[t] EXCEPT !.pc = "check"])
    /\ UNCHANGED <<ml_vars, strategy, total_spent, bid_count, last_reset_day, date, hour,
                   ledger_date, resp>>

\* total_spent = 0.00
T_ResetSpent(t) ==
    /\ threads[t].pc = "reset_spent"
    /\ total_spent' = 0
    /\ SetThread(t, [threads[t] EXCEPT !.pc = "reset_count"])
    /\ UNCHANGED <<ml_vars, strategy, bid_count, last_reset_day, date, hour, ledger_date, resp>>

\* bid_count = 0
T_ResetCount(t) ==
    /\ threads[t].pc = "reset_count"
    /\ bid_count' = 0
    /\ SetThread(t, [threads[t] EXCEPT !.pc = "reset_day"])
    /\ UNCHANGED <<ml_vars, strategy, total_spent, last_reset_day, date, hour, ledger_date, resp>>

\* last_reset_day = current_day
T_ResetDay(t) ==
    /\ threads[t].pc = "reset_day"
    /\ last_reset_day' = threads[t].day
    /\ SetThread(t, [threads[t] EXCEPT !.pc = "check", !.day = 0])
    /\ UNCHANGED <<ml_vars, strategy, total_spent, bid_count, date, hour, ledger_date, resp>>

\* The checks of should_bid (the budget check reads total_spent) and, for an
\* admitted impression, generate_bid_response, which touches no global.
T_Check(t) ==
    LET th == threads[t]
        imp == th.imps[th.k]
        sb == should_bid(imp, total_spent, hour, config)
    IN  /\ th.pc = "check"
        /\ \/ /\ sb.result = "raise"
              /\ SetThread(t, [th EXCEPT !.pc = "done", !.status = 500])
           \/ /\ sb.result = "false"
              /\ SetThread(t, NextImp(th))
           \/ /\ sb.result = "true"
              /\ \E pred \in ConcPredOutcomes :
                   \E up \in UpChoices(imp, ClickProbability(pred), config) :
                     SetThread(t, [th EXCEPT
                        !.pc = "load", !.seen = total_spent,
                        !.price = BidPrice(imp, ClickProbability(pred), config, up)])
        /\ UNCHANGED <<ml_vars, strategy, total_spent, bid_count, last_reset_day, date, hour,
                       ledger_date, resp>>

\* total_spent += bid_price: the read of total_spent
T_LoadSpent(t) ==
    /\ threads[t].pc = "load"
    /\ SetThread(t, [threads[t] EXCEPT !.pc = "store", !.reg = total_spent])
    /\ UNCHANGED <<ml_vars, strategy, total_spent, bid_count, last_reset_day, date, hour,
                   ledger_date, resp>>

\* total_spent += bid_price: the write of the sum
T_StoreSpent(t) ==
    /\ threads[t].pc = "store"
    /\ total_spent' = threads[t].reg + threads[t].price
    /\ SetThread(t, [threads[t] EXCEPT !.pc = "load_count", !.reg = 0])
    /\ UNCHANGED <<ml_vars, strategy, bid_count, last_reset_day, date, hour, ledger_date, resp>>

\* bid_count += 1: the read of bid_count
T_LoadCount(t) ==
    /\ threads[t].pc = "load_count"
    /\ SetThread(t, [threads[t] EXCEPT !.pc = "store_count", !.reg = bid_count])
    /\ UNCHANGED <<ml_vars, strategy, total_spent, bid_count, last_reset_day, date, hour,
                   ledger_date, resp>>

\* bid_count += 1: the write, then bids.append and the next impression
T_StoreCount(t) ==
    /\ threads[t].pc = "store_count"
    /\ bid_count' = threads[t].reg + 1
    /\ SetThread(t, NextImp([threads[t] EXCEPT !.reg = 0,
                                               !.nbids = threads[t].nbids + 1]))
    /\ UNCHANGED <<ml_vars, strategy, total_spent, last_reset_day, date, hour, ledger_date, resp>>

\* The response is returned; the thread is free for the next request.
T_Respond(t) ==
    /\ threads[t].pc = "done"
    /\ SetThread(t, IdleThread)
    /\ UNCHANGED <<ml_vars, strategy, total_spent, bid_count, last_reset_day, date, hour,
                   ledger_date, resp>>

\* Midnight passes while requests are being handled.
ConcTick(d) ==
    /\ d > date
    /\ date' = d
    /\ UNCHANGED <<ml_vars, strategy, total_spent, bid_count, last_reset_day, hour, threads,
                   ledger_date, resp>>

NextConc ==
    \/ \E t \in Threads :
         \/ \E imps \in ConcImpSeqs : T_Begin(t, imps)
         \/ T_RolloverCheck(t)
         \/ T_ResetSpent(t)
         \/ T_ResetCount(t)
         \/ T_ResetDay(t)
         \/ T_Check(t)
         \/ T_LoadSpent(t)
         \/ T_StoreSpent(t)
         \/ T_LoadCount(t)
         \/ T_StoreCount(t)
         \/ T_Respond(t)
    \/ \E d \in 0 .. MaxDate : ConcTick(d)

InitConc == Init /\ hour \in ConcHours

SpecConc == InitConc /\ [][NextConc]_vars

\* ------------------------------------------------------- claims: helpers
\* The per-impression records of the bid request just handled.
Trace == IF resp.op = "bid" THEN resp.trace ELSE <<>>

Entries == {Trace[k] : k \in 1 .. Len(Trace)}

RECURSIVE SumPrices(_)
SumPrices(seq) ==
    IF seq = <<>> THEN 0 ELSE seq[1].price + SumPrices(Tail(seq))

\* The entries of the impressions that were debited.
Debited == SelectSeq(Trace, LAMBDA e : e.result = "true")

InWindow(h, cfg) == cfg.bid_window_start <= h /\ h < cfg.bid_window_end

\* ------------------------------------------------------------------ C1
\* C1: under serialized access total_spent never exceeds the daily budget.
\* The code checks total_spent < daily_budget before pricing and then adds
\* the price unconditionally, so this is violated.
C1_BudgetNeverExceeded == total_spent <= config.daily_budget

\* ------------------------------------------------------------------ C2
\* C2: an impression is debited only if total_spent + price does not exceed
\* the daily cap at the moment of the debit (budget 15.00, three impressions
\* priced 6.00: the third is not debited).  Violated by the code.
C2_DebitOnlyWithinCap ==
    \A e \in Entries :
        e.result = "true" => e.seen + e.price <= config.daily_budget

\* ------------------------------------------------------------------ C4
\* C4: when a bid request is handled on a calendar date other than the one
\* the ledger was last checked on, total_spent and bid_count are zero after
\* the rollover check, whichever two dates are involved.  Violated: the code
\* compares days of the month.
C4_RolloverOnEveryNewDate ==
    (Trace # <<>> /\ resp.pre_ledger_date # date)
        => (Trace[1].checked.spent = 0 /\ Trace[1].checked.count = 0)

C8_FixedOrderShortCircuit ==
    \A e \in Entries :
        LET order == <<"budget", "bidfloor", "window", "device", "os", "country">>
            n == Len(e.evaluated)
            Passes(c) ==
                CASE c = "budget" -> e.seen < config.daily_budget
                  [] c = "bidfloor" -> e.imp.has_floor /\ e.imp.bidfloor # 0
                  [] c = "window" -> InWindow(e.hour, config)
                  [] c = "device" ->
                       /\ e.imp.devicetype # NumericDeviceType
                       /\ Upper(e.imp.devicetype) \in config.target_devices
                  [] c = "os" -> e.imp.os \in config.target_os
                  [] OTHER -> e.imp.country = config.target_country
        IN  /\ n >= 1
            /\ e.evaluated = SubSeq(order, 1, n)
            /\ \A k \in 1 .. n - 1 : Passes(order[k])
            /\ e.result # "true" => (e.reason = order[n] /\ ~Passes(order[n]))
            /\ e.result = "true" => (n = 6 /\ Passes(order[6]))
            /\ e.seen >= config.daily_budget
                 => (e.evaluated = <<"budget">> /\ e.reason = "budget"
                       /\ e.result = "false")

C8_Witness ==
    \E e \in Entries :
        /\ e.seen >= config.daily_budget
        /\ e.reason = "budget"
        /\ e.imp.bidfloor = 0
        /\ e.imp.country # config.target_country
        /\ ~InWindow(e.hour, config)

\* ------------------------------------------------------------------ C9
\* The reasons with which the targeting part of the filter rejects.
TargetingReasons == {"bidfloor", "window", "device", "os", "country"}

\* C9 as stated: an impression the targeting filter rejects leaves
\* total_spent and bid_count as they were before it was evaluated.  Violated
\* when the impression is the first one evaluated on a new day.
C9_RejectedLeavesLedger ==
    \A e \in Entries :
        (e.result = "false" /\ e.reason \in TargetingReasons)
            => (e.after.spent = e.before.spent /\ e.after.count = e.before.count)

\* C9 amended: an impression the targeting filter rejects yields no bid and
\* is not debited; total_spent and bid_count are as before it when the day
\* of the month equals last_reset_day, and zero (the rollover) otherwise.
C9_RejectedNotDebited ==
    /\ \A e \in Entries :
         (e.result = "false" /\ e.reason \in TargetingReasons) =>
             /\ e.price = 0
             /\ IF e.before.lrd = DayOfMonth(date)
                THEN e.after = e.before
                ELSE e.after = Ledger(0, 0, DayOfMonth(date))
    /\ (Len(Trace) = 1 /\ Trace[1].result = "false") =>
          /\ resp.status = 204 /\ resp.bids = <<>>
          /\ total_spent = Trace[1].after.spent
          /\ bid_count = Trace[1].after.count

C9_Witness ==
    /\ Len(Trace) = 1
    /\ Trace[1].reason = "country"
    /\ Trace[1].before.spent > 0
    /\ Trace[1].before.lrd # DayOfMonth(date)
    /\ total_spent = 0

\* ------------------------------------------------------------------ C10
\* C10: every debit corresponds to a bid emitted to the caller: the prices
\* debited by a request are exactly the prices of the bids in its response
\* (none for an internal-error or a no-bid response).  Violated by the code.
C10_DebitsMatchEmittedBids ==
    resp.op = "bid" =>
        /\ SumPrices(Debited) = SumPrices(resp.bids)
        /\ Len(Debited) = Len(resp.bids)

\* ------------------------------------------------------------------ C3
\* C3: the budget check and the debit of an impression are one atomic step:
\* two requests handled concurrently never both pass the check against the
\* same total_spent, each fitting under the cap on its own, and then together
\* take total_spent past the cap.  Violated: the code holds no lock.
C3_NoJointOverspend ==
    \A t1, t2 \in Threads :
        (/\ t1 # t2
         /\ threads[t1].pc = "done" /\ threads[t1].nbids = 1
         /\ threads[t2].pc = "done" /\ threads[t2].nbids = 1
         /\ threads[t1].seen = threads[t2].seen
         /\ threads[t1].seen + threads[t1].price <= config.daily_budget
         /\ threads[t2].seen + threads[t2].price <= config.daily_budget)
        => total_spent <= config.daily_budget

\* ------------------------------------------------------------------ C7
\* C7: an impression is admitted (and then priced and debited) only if its
\* bidfloor is present and positive.  Violated: the code tests the
\* truthiness of the bidfloor, and a negative number is truthy.
C7_OnlyPositiveFloorAdmitted ==
    \A e \in Entries :
        e.result = "true" => (e.imp.has_floor /\ e.imp.bidfloor > 0)

\* ------------------------------------------------------------------ C11
\* C11: the response to a request carries one bid per admitted impression:
\* with k admitted impressions it carries k bids, each with the id and the
\* price of its impression.  Violated: the body is bids[0] alone.
C11_OneBidPerAdmittedImpression ==
    (resp.op = "bid" /\ resp.status = 200) =>
        /\ Len(resp.bids) = Len(Debited)
        /\ \A k \in 1 .. Len(Trace) :
             Trace[k].result = "true" =>
                 \E j \in 1 .. Len(resp.bids) :
                     /\ resp.bids[j].impid = k
                     /\ resp.bids[j].price = Trace[k].price

\* ------------------------------------------------------------------ C12
\* C12: a request that passes validation is answered 200 if and only if at
\* least one of its impressions yields a bid, and 204 if and only if none
\* does.  Violated: an exception in the loop answers 500 in both cases.
C12_StatusIffSomeBid ==
    (resp.op = "bid" /\ resp.kind = "valid") =>
        /\ resp.status = 200 <=> (\E e \in Entries : e.result = "true")
        /\ resp.status = 204 <=> ~(\E e \in Entries : e.result = "true")

\* ------------------------------------------------------------------ C13
\* C13: every malformed request (absent or empty body, missing id, missing
\* or empty imp) is answered 400 and has no side effect: the ledger is as
\* before and no impression is evaluated.  Violated by the absent body: the
\* handler dereferences it before validating and answers 500.
C13_MalformedIsBadRequest ==
    (resp.op = "bid" /\ resp.kind \in MalformedKinds) =>
        /\ resp.status = 400
        /\ CurrentLedger = resp.pre
        /\ resp.trace = <<>>
        /\ resp.bids = <<>>

C15_PriceFormula ==
    resp.op = "price" =>
        LET markup == CASE strategy = "conservative" -> 20
                        [] strategy = "aggressive" -> 1
                        [] OTHER -> 5
            base == Max(resp.imp.bidfloor, config.min_bid_price) + markup
            mult == Max(500, Min(500 + resp.ctr, 1000))
        IN  /\ resp.base = base
            /\ resp.mult = mult
            /\ 2 * (500 * resp.price - base * mult) \in -500 .. 500
            /\ (strategy = "conservative" /\ resp.imp.bidfloor = 200
                  /\ resp.ctr = 150)
                 => (resp.base = 220 /\ resp.mult = 650 /\ resp.price = 286)

C15_Witness ==
    /\ resp.op = "price" /\ strategy = "conservative"
    /\ resp.imp.bidfloor = 200 /\ resp.ctr = 150 /\ resp.price = 286

\* ------------------------------------------------------------------ C16
\* C16: for a fixed bidfloor and profile the price is non-decreasing in the
\* predicted CTR over 0..1: a larger CTR never gives a smaller price, and
\* the price never exceeds twice the base price.
C16_PriceMonotoneAndCapped ==
    resp.op = "price" =>
        /\ \A ctr2 \in PriceCtrValues :
             ctr2 > resp.ctr =>
                 \A up2 \in UpChoices(resp.imp, ctr2, config) :
                     resp.price <= BidPrice(resp.imp, ctr2, config, up2)
        /\ resp.price <= 2 * resp.base

C16_Witness ==
    /\ resp.op = "price" /\ resp.ctr = 500
    /\ resp.price = 2 * resp.base
    /\ \E up \in BOOLEAN :
         BidPrice(resp.imp, 150, config, up) < resp.price
    /\ BidPrice(resp.imp, 10000, config, FALSE) = resp.price

\* ------------------------------------------------------------------ C17
\* C17: for every emitted bid and every suggested bid, with a predicted CTR
\* and with the default CTR alike, the multiplier lies in [1.0, 2.0]; the
\* price is never below the base price and never negative.
C17_MultiplierInRange ==
    (resp.op \in {"price", "suggest"} /\ (resp.op = "suggest" => ~resp.error)) =>
        /\ resp.mult \in 500 .. 1000
        /\ resp.price >= resp.base
        /\ resp.price <= 2 * resp.base
        /\ resp.price >= 0

C17_Witness ==
    /\ resp.op = "suggest" /\ ~resp.error
    /\ resp.ctr = 10000 /\ resp.mult = 1000
    /\ resp.price = 2 * resp.base

\* ------------------------------------------------------------------ C18
\* C18: the manual reset sets total_spent and bid_count to zero whatever
\* they were, leaves last_reset_day and the strategy configuration as they
\* are, and after it an impression that passes targeting is admitted again,
\* on the same day or a later one, even if the budget had been exhausted.
C18_ManualResetZeroesAndReadmits ==
    /\ [](resp.op = "reset" =>
            /\ total_spent = 0
            /\ bid_count = 0
            /\ last_reset_day = resp.pre.lrd
            /\ \A d \in date .. MaxDate, h \in Hours :
                 InWindow(h, config) =>
                     \A out \in bid([kind |-> "valid", imp |-> <<BaseImp>>],
                                    CurrentLedger, d, h, config) :
                         /\ out.status = 200
                         /\ out.trace[1].result = "true"
                         /\ out.led.count = 1)
    /\ [][resp'.op = "reset" =>
            (strategy' = strategy /\ last_reset_day' = last_reset_day)]_vars

C18_Witness ==
    /\ resp.op = "reset"
    /\ resp.pre.spent >= config.daily_budget
    /\ resp.pre.count > 1
    /\ total_spent = 0 /\ bid_count = 0
    /\ InWindow(hour, config)
    /\ should_bid(BaseImp, resp.pre.spent, hour, config).reason = "budget"

\* ---------------------------------- concurrent first calls of get_predictor
\* The part of generate_bid_response that obtains the predictor, on the
\* threads of the server: get_predictor() tests and assigns the global
\* _predictor without a lock, and the constructor reads and writes the
\* model file.  A thread can be preempted between any two of these steps.
LedgerVars == <<strategy, total_spent, bid_count, last_reset_day, date, hour,
                ledger_date, resp>>

\* generate_bid_response is entered for an admitted impression.
P_Begin(t) ==
    /\ threads[t].pc = "idle"
    /\ SetThread(t, [IdleThread EXCEPT !.pc = "gp_check"])
    /\ UNCHANGED <<ml_vars, LedgerVars>>

\* get_predictor: if _predictor is None
P_CheckNone(t) ==
    /\ threads[t].pc = "gp_check"
    /\ SetThread(t, [threads[t] EXCEPT
                       !.pc = IF predictor = NoPredictor THEN "exists" ELSE "gp_return"])
    /\ UNCHANGED <<ml_vars, LedgerVars>>

\* load_or_create_model: os.path.exists(self.model_path)
P_Exists(t) ==
    /\ threads[t].pc = "exists"
    /\ SetThread(t, [threads[t] EXCEPT
                       !.pc = IF model_file.exists THEN "load" ELSE "train"])
    /\ UNCHANGED <<ml_vars, LedgerVars>>

\* load_or_create_model: open and pickle.load; an exception leaves the
\* constructor and get_predictor and is caught in generate_bid_response.
P_Load(t) ==
    LET l == PickleLoad(model_file.data)
    IN  /\ threads[t].pc = "load"
        /\ IF l.ok
           THEN /\ SetThread(t, [threads[t] EXCEPT !.pc = "gp_assign", !.obj = l.model])
                /\ constructed' = Append(constructed, [path |-> "load", model |-> l.model])
           ELSE /\ SetThread(t, [threads[t] EXCEPT !.pc = "p_failed"])
                /\ UNCHANGED constructed
        /\ UNCHANGED <<model_file, predictor, LedgerVars>>

\* train_model starts: np.random.seed(42) on numpy's global generator.  Two
\* trainings that run at the same time disturb each other's draws (reg = 1).
P_TrainBegin(t) ==
    LET others == {u \in Threads \ {t} : threads[u].pc = "training"}
    IN  /\ threads[t].pc = "train"
        /\ threads' = [u \in Threads |->
                         IF u = t
                         THEN [threads[t] EXCEPT !.pc = "training",
                                                 !.reg = IF others # {} THEN 1 ELSE 0]
                         ELSE IF u \in others THEN [threads[u] EXCEPT !.reg = 1]
                         ELSE threads[u]]
        /\ UNCHANGED <<ml_vars, LedgerVars>>

\* train_model ends with the fitted weights and bias.
P_TrainEnd(t) ==
    /\ threads[t].pc = "training"
    /\ \E m \in IF threads[t].reg = 1 THEN {SeededModel, InterleavedModel}
                 ELSE {SeededModel} :
         /\ SetThread(t, [threads[t] EXCEPT !.pc = "save_open", !.obj = m, !.reg = 0])
         /\ constructed' = Append(constructed, [path |-> "train", model |-> m])
    /\ UNCHANGED <<model_file, predictor, LedgerVars>>

\* save_model: open(self.model_path, 'wb')
P_SaveOpen(t) ==
    /\ threads[t].pc = "save_open"
    /\ model_file' = EmptyFile
    /\ SetThread(t, [threads[t] EXCEPT !.pc = "save_dump"])
    /\ UNCHANGED <<predictor, constructed, LedgerVars>>

\* save_model: pickle.dump and the close of the file
P_SaveDump(t) ==
    /\ threads[t].pc = "save_dump"
    /\ model_file' = SavedFile(threads[t].obj)
    /\ SetThread(t, [threads[t] EXCEPT !.pc = "gp_assign"])
    /\ UNCHANGED <<predictor, constructed, LedgerVars>>

\* get_predictor: _predictor = ClickProbabilityPredictor()
P_Assign(t) ==
    /\ threads[t].pc = "gp_assign"
    /\ predictor' = threads[t].obj
    /\ SetThread(t, [threads[t] EXCEPT !.pc = "gp_return", !.obj = NoPredictor])
    /\ UNCHANGED <<model_file, constructed, LedgerVars>>

\* get_predictor: return _predictor
P_Return(t) ==
    /\ threads[t].pc = "gp_return"
    /\ SetThread(t, [threads[t] EXCEPT !.pc = "predict", !.used = predictor])
    /\ UNCHANGED <<ml_vars, LedgerVars>>

\* predictor.predict(imp): reads weights and bias.
P_Predict(t) ==
    /\ threads[t].pc = "predict"
    /\ SetThread(t, [threads[t] EXCEPT !.pc = "p_done"])
    /\ UNCHANGED <<ml_vars, LedgerVars>>

\* except Exception: click_probability = 0.015, no model is used.
P_Failed(t) ==
    /\ threads[t].pc = "p_failed"
    /\ SetThread(t, [threads[t] EXCEPT !.pc = "p_done"])
    /\ UNCHANGED <<ml_vars, LedgerVars>>

\* The request is answered.
P_Finish(t) ==
    /\ threads[t].pc = "p_done"
    /\ SetThread(t, IdleThread)
    /\ UNCHANGED <<ml_vars, LedgerVars>>

NextPred ==
    \E t \in Threads :
        \/ P_Begin(t)
        \/ P_CheckNone(t)
        \/ P_Exists(t)
        \/ P_Load(t)
        \/ P_TrainBegin(t)
        \/ P_TrainEnd(t)
        \/ P_SaveOpen(t)
        \/ P_SaveDump(t)
        \/ P_Assign(t)
        \/ P_Return(t)
        \/ P_Predict(t)
        \/ P_Failed(t)
        \/ P_Finish(t)

SpecPred == InitModel /\ [][NextPred]_vars

\* ------------------------------------------------------------------ C19
\* The constructions of the running process: those after the last restart.
RECURSIVE SinceRestart(_)
SinceRestart(seq) ==
    IF seq = <<>> \/ seq[Len(seq)].path = "restart"
    THEN <<>>
    ELSE Append(SinceRestart(SubSeq(seq, 1, Len(seq) - 1)), seq[Len(seq)])

\* C19: whatever the interleaving of concurrent requests, several first
\* requests arriving together included, the CTR model is constructed
\* (loaded or trained) at most once per process, every request uses that
\* same model, and the model is never modified after construction.
\* Violated: get_predictor tests and assigns _predictor without a lock.
C19_ModelConstructedOnce ==
    LET built == SinceRestart(constructed)
    IN  /\ Len(built) <= 1
        /\ \A t \in Threads :
             threads[t].used # NoPredictor =>
                 (Len(built) = 1 /\ threads[t].used = built[1].model)
        /\ predictor # NoPredictor =>
             (Len(built) >= 1 /\ predictor = built[1].model)

\* ------------------------------------------------------------------ C20
\* The constructions of the history, without the restarts.
Constructions == SelectSeq(constructed, LAMBDA c : c.path # "restart")

\* C20: construction is load-or-train.  If the model file exists it is
\* loaded verbatim and nothing is trained or written; if it is absent the
\* model is trained and persisted; a later construction loads exactly the
\* weights and bias that were saved.
C20_LoadOrTrain ==
    /\ (resp.op = "get_predictor" /\ resp.path # "cached") =>
          /\ ~resp.raised
          /\ predictor = resp.model
          /\ IF resp.file_before.exists
             THEN /\ resp.path = "load"
                  /\ model_file = resp.file_before
             ELSE /\ resp.path = "train"
                  /\ model_file.exists
          /\ model_file.data =
               <<"MARK", "weights", predictor.weights,
                 "bias", predictor.bias, "DICT", "STOP">>
    /\ \A j \in 2 .. Len(Constructions) :
          /\ Constructions[j].path = "load"
          /\ Constructions[j].model = Constructions[j - 1].model

C20_Witness ==
    /\ resp.op = "get_predictor" /\ resp.path = "load"
    /\ Len(Constructions) = 2
    /\ Constructions[1].path = "train"
    /\ Constructions[2] = [path |-> "load", model |-> Constructions[1].model]
    /\ predictor = Constructions[1].model

\* ------------------------------------------------------------------ C22
\* C22: every request the generator produces in its USA-iOS mode gets a bid
\* from the default bidder server (bidder_server.py, the generator's default
\* URL), in every ledger state and at every hour.  Violated: outside the bid
\* window and with the budget spent the server answers no-bid.
C22_UsaIosAlwaysBid ==
    (resp.op = "bid" /\ strategy = "minimal") =>
        (resp.status = 200 /\ Len(resp.bids) = 1)

\* ------------------------------------------------------------------ C23
\* C23: the day rollover is applied exactly once per day transition, also
\* when several requests run the rollover check concurrently across it: a
\* thread that zeroes total_spent or bid_count for a day that last_reset_day
\* already records (a second reset) erases no debit recorded after the first.
\* Violated: the comparison and the three assignments are not atomic.
C23_SecondResetErasesNothing ==
    [][\A t \in Threads :
          /\ (/\ threads[t].pc = "reset_spent"
              /\ threads'[t].pc = "reset_count"
              /\ last_reset_day = threads[t].day) => total_spent = 0
          /\ (/\ threads[t].pc = "reset_count"
              /\ threads'[t].pc = "reset_day"
              /\ last_reset_day = threads[t].day) => bid_count = 0]_vars

\* ------------------------------------------------------------------ C24
\* C24: each impression of a request follows exactly one path: it is
\* rejected (filtered out or refused for the budget, or its evaluation
\* fails), with no price, no debit and no bid, or it is admitted, priced,
\* debited once and emitted, its bid being in the response.  Violated: an admitted impression after the first
\* one of a request, or before one that raises, is priced and debited and
\* never emitted.
C24_OnePathPerImpression ==
    resp.op = "bid" =>
        \A k \in 1 .. Len(Trace) :
            LET e       == Trace[k]
                emitted == \E j \in 1 .. Len(resp.bids) : resp.bids[j].impid = k
            IN  \/ /\ e.result \in {"false", "raise"}
                   /\ e.price = 0
                   /\ e.after = e.checked
                   /\ ~emitted
                \/ /\ e.result = "true"
                   /\ e.after = Ledger(e.seen + e.price, e.checked.count + 1, e.checked.lrd)
                   /\ emitted

\* ------------------------------------------- feature extraction (pure)
\* str.lower() on the OS names the inputs use.
Lower(s) ==
    CASE s = "iOS" -> "ios"
      [] s = "Android" -> "android"
      [] s = "Windows" -> "windows"
      [] OTHER -> s

\* Impressions handed to the predictor: known, lower-case, unknown and absent
\* ("") device types, OS names and countries, and a numeric devicetype.
FeatureImpressions ==
    [has_floor : BOOLEAN, bidfloor : {280, 350},
     devicetype : {"PHONE", "phone", "TABLET", "DESKTOP", "CTV", "", NumericDeviceType},
     os : {"iOS", "ios", "Android", "Windows", ""},
     country : {"USA", "usa", "GER", ""}]

\* Variant: an unknown device type sets no device slot.
ExtractFeaturesNoDefaultSlot(imp, h) ==
    LET device_type == Upper(imp.devicetype)
        bidfloor    == IF imp.has_floor THEN imp.bidfloor ELSE 100
        zeros       == [i \in 0 .. 7 |-> 0]
        dev         == IF device_type = "PHONE" THEN [zeros EXCEPT ![0] = 1]
                       ELSE IF device_type = "TABLET" THEN [zeros EXCEPT ![1] = 1]
                       ELSE IF device_type = "DESKTOP" THEN [zeros EXCEPT ![2] = 1]
                       ELSE zeros
        os          == IF Lower(imp.os) = "ios" THEN [dev EXCEPT ![3] = 1]
                       ELSE IF Lower(imp.os) = "android" THEN [dev EXCEPT ![4] = 1]
                       ELSE dev
    IN  [os EXCEPT ![5] = IF Upper(imp.country) = "USA" THEN 1 ELSE 0,
                   ![6] = h,
                   ![7] = Min(bidfloor, 300)]

\* _extract_features: the vector [phone, tablet, desktop, ios, android, usa,
\* hour, bidfloor] with the code's indices 0..7.  Slot 6 holds the numerator
\* of hour / 23.0 and slot 7 the numerator, in cents, of min(bidfloor, 3.0) / 3.0.
ExtractFeatures(imp, h) ==
    LET device_type == Upper(imp.devicetype)
        bidfloor    == IF imp.has_floor THEN imp.bidfloor ELSE 100
        zeros       == [i \in 0 .. 7 |-> 0]
        dev         == IF device_type = "PHONE" THEN [zeros EXCEPT ![0] = 1]
                       ELSE IF device_type = "TABLET" THEN [zeros EXCEPT ![1] = 1]
                       ELSE [zeros EXCEPT ![2] = 1]
        os          == IF Lower(imp.os) = "ios" THEN [dev EXCEPT ![3] = 1]
                       ELSE IF Lower(imp.os) = "android" THEN [dev EXCEPT ![4] = 1]
                       ELSE dev
    IN  [os EXCEPT ![5] = IF Upper(imp.country) = "USA" THEN 1 ELSE 0,
                   ![6] = h,
                   ![7] = Min(bidfloor, 300)]

\* predictor.predict(imp) up to the feature vector; .upper() raises on a
\* devicetype that is not a string.
extract_features(imp) ==
    /\ Idle
    /\ resp' = IF imp.devicetype = NumericDeviceType
               THEN [op |-> "features", imp |-> imp, raised |-> TRUE,
                     features |-> <<>>]
               ELSE [op |-> "features", imp |-> imp, raised |-> FALSE,
                     features |-> ExtractFeatures(imp, hour)]
    /\ UNCHANGED <<ml_vars, strategy, total_spent, bid_count, last_reset_day, date, hour, threads, ledger_date>>

NextFeatures ==
    \/ \E imp \in FeatureImpressions : extract_features(imp)
    \/ Deliver
    \/ \E d \in 0 .. MaxDate, h \in Hours : Tick(d, h)

SpecFeatures == Init /\ [][NextFeatures]_vars

C26_NoLostUpdate ==
    (/\ \A t \in Threads : threads[t].pc \in {"idle", "done"}
     /\ date = 0)
    => total_spent = BidPrice(BaseImp, ClickProbability(500), config, FALSE) * bid_count

\* ------------------------------------------------------------------ C27
\* C27: when requests are handled one at a time, every debit is made from a
\* ledger with total_spent < daily_budget, so total_spent after it is below
\* daily_budget plus its price; at most one debit of a request takes
\* total_spent from below the cap to the cap or above, and from a ledger at
\* or above the cap no impression is admitted until a reset (the rollover
\* or the manual one): a bid request on the same day leaves it as it is.
C27_DebitFromBelowCap ==
    /\ [](resp.op = "bid" =>
            /\ \A e \in Entries :
                 e.result = "true" =>
                     /\ e.seen < config.daily_budget
                     /\ e.after.spent = e.seen + e.price
                     /\ e.after.spent < config.daily_budget + e.price
            /\ \A j, k \in 1 .. Len(Trace) :
                 (/\ j # k
                  /\ Trace[j].result = "true"
                  /\ Trace[j].after.spent >= config.daily_budget)
                 => ~(/\ Trace[k].result = "true"
                      /\ Trace[k].after.spent >= config.daily_budget)
            /\ Debited # <<>> =>
                 total_spent < config.daily_budget + Debited[Len(Debited)].price)
    /\ [][(/\ total_spent >= config.daily_budget
           /\ resp'.op = "bid"
           /\ last_reset_day = DayOfMonth(date))
          => (/\ total_spent' = total_spent
              /\ bid_count' = bid_count
              /\ \A k \in 1 .. Len(resp'.trace) :
                   resp'.trace[k].result # "true")]_vars

\* A debit from below the cap that takes total_spent strictly above it.
C27_Witness ==
    /\ resp.op = "bid"
    /\ Debited # <<>>
    /\ Debited[Len(Debited)].seen > 0
    /\ Debited[Len(Debited)].seen < config.daily_budget
    /\ total_spent > config.daily_budget

\* ------------------------------------------------------------------ C28
\* C28: within one request the budget check of each impression sees the
\* ledger as the earlier impressions of the request left it: once a debit
\* of the request has brought total_spent to the daily budget or above,
\* every later impression of the request is rejected, for the budget.
C28_BudgetRecheckedPerImpression ==
    resp.op = "bid" =>
        /\ \A k \in 2 .. Len(Trace) :
             /\ Trace[k].before = Trace[k - 1].after
             /\ Trace[k].seen = Trace[k - 1].after.spent
        /\ \A j, k \in 1 .. Len(Trace) :
             (/\ j < k
              /\ Trace[j].result = "true"
              /\ Trace[j].after.spent >= config.daily_budget)
             => (/\ Trace[k].result = "false"
                 /\ Trace[k].reason = "budget"
                 /\ Trace[k].after = Trace[j].after)

\* The first impression of a request is debited from below the cap and
\* crosses it; the second, the same impression, is rejected for the budget.
C28_Witness ==
    /\ resp.op = "bid"
    /\ Len(Trace) = 2
    /\ Trace[1].imp = Trace[2].imp
    /\ Trace[1].result = "true"
    /\ Trace[1].seen < config.daily_budget
    /\ Trace[1].after.spent >= config.daily_budget
    /\ Trace[2].result = "false"
    /\ Trace[2].reason = "budget"
    /\ resp.status = 200

\* ------------------------------------------------------------------ C29
\* C29: stats, predict and health leave the ledger as it is, whatever the
\* request body: total_spent, bid_count and last_reset_day after them are
\* what they were before.  stats reports the ledger and remaining_budget =
\* max(0, daily_budget - total_spent), which is never negative.
C29_ReadOperationsKeepLedger ==
    /\ [][resp'.op \in {"stats", "predict", "health"} =>
            /\ total_spent' = total_spent
            /\ bid_count' = bid_count
            /\ last_reset_day' = last_reset_day]_vars
    /\ [](resp.op \in {"stats", "predict", "health"} =>
            resp.pre = CurrentLedger)
    /\ [](resp.op = "stats" =>
            /\ resp.total_spent = total_spent
            /\ resp.bid_count = bid_count
            /\ resp.remaining_budget >= 0
            /\ resp.remaining_budget =
                 (IF total_spent >= config.daily_budget THEN 0
                  ELSE config.daily_budget - total_spent))

\* stats on a ledger above the cap, on a new day: remaining_budget is 0 and
\* the rollover is left to the next bid request.
C29_Witness ==
    /\ resp.op = "stats"
    /\ total_spent > config.daily_budget
    /\ resp.remaining_budget = 0
    /\ last_reset_day # DayOfMonth(date)

\* ------------------------------------------------------------------ C30
\* C30: the suggested bid of the predict endpoint is
\* round(max(bidfloor, min_bid_price) * multiplier, 2), bidfloor being 1.0
\* when the impression has none, with the multiplier min(1 + ctr / 0.05, 2)
\* of the bid path and no markup; for an impression the bid endpoint can
\* price (one with a bidfloor that is not zero) it is at most the bid price
\* for the same impression, strategy and CTR, whichever way a tie rounds.
C30_SuggestedBidAtMostBidPrice ==
    (resp.op = "suggest" /\ ~resp.error) =>
        LET imp  == resp.imp
            base == IF ~imp.has_floor
                    THEN (IF config.min_bid_price > 100 THEN config.min_bid_price ELSE 100)
                    ELSE IF imp.bidfloor > config.min_bid_price THEN imp.bidfloor
                    ELSE config.min_bid_price
            mult == IF resp.ctr >= 500 THEN 1000 ELSE 500 + resp.ctr
        IN  /\ resp.base = base
            /\ resp.mult = mult
            /\ 2 * (resp.price * 500 - base * mult) <= 500
            /\ 2 * (base * mult - resp.price * 500) <= 500
            /\ (imp.has_floor /\ imp.bidfloor # 0) =>
                 \A up \in UpChoices(imp, resp.ctr, config) :
                     resp.price <= BidPrice(imp, resp.ctr, config, up)

\* A suggested bid that a tie rounded up, below the bid price of the same
\* impression above the minimum bid price.
C30_Witness ==
    /\ resp.op = "suggest" /\ ~resp.error
    /\ resp.imp.has_floor
    /\ resp.imp.bidfloor > config.min_bid_price
    /\ resp.mult < CapNum
    /\ IsTie(resp.base * resp.mult, CtrScale)
    /\ resp.price * CtrScale > resp.base * resp.mult
    /\ resp.price < BidPrice(resp.imp, resp.ctr, config, FALSE)

=============================================================================
